---- MODULE Spec2Model ----
(***************************************************************************)
(* Model of ringstone_translate.py: one run of push_translations().        *)
(* The run fetches locales/en.json from main, translates every value into  *)
(* every configured language through the completion API, writes one file   *)
(* per language on the branch translations-auto, opens a pull request if   *)
(* the open-PR query finds none, and mails a report with a CSV attachment. *)
(*                                                                         *)
(* Texts are sequences of tokens: a word, or WS for a run of whitespace at *)
(* either end of a completion.  The three external services (completion    *)
(* API, repository host, mail transport) answer nondeterministically: each *)
(* call either returns or raises.                                          *)
(***************************************************************************)
EXTENDS Naturals, Sequences, FiniteSets

\* ---------------------------------------------------------------- bounds
MaxKeys == 2
MaxLangs == 2
MaxFaults == 2
\* completion calls of one run: the runs explored have N x L <= MaxCalls
MaxCalls == 4

\* ------------------------------------------------------------- constants
CSV_HEADER == <<"Language", "Key", "Original Text", "Translated Text">>
QUERY_HEAD_OWNER == "ClintUK"

WS == " "
Keys == 1..MaxKeys
Langs == {"es", "fr"}
Owners == {"ClintUK", "acme"}
Texts == {<<"Hello">>, <<"Log", "in">>}
\* What the completion endpoint can answer: the text and the call's tokens.
Responses ==
    { [content |-> <<"Hola">>, total_tokens |-> 1],
      [content |-> <<WS, "Buenos", "dias", WS>>, total_tokens |-> 2] }
StaleContent == <<[key |-> 0, text |-> <<"old">>]>>

\* --------------------------------------------------------------- helpers
Range(s) == {s[i] : i \in 1..Len(s)}

RECURSIVE SumSeq(_)
SumSeq(s) == IF s = <<>> THEN 0 ELSE s[1] + SumSeq(Tail(s))

RECURSIVE LStrip(_)
LStrip(s) == IF s # <<>> /\ s[1] = WS THEN LStrip(Tail(s)) ELSE s

RECURSIVE RStrip(_)
RStrip(s) ==
    IF s # <<>> /\ s[Len(s)] = WS THEN RStrip(SubSeq(s, 1, Len(s) - 1)) ELSE s

\* str.strip()
strip(s) == RStrip(LStrip(s))

\* str.split(): the words of a text
split(s) == SelectSeq(s, LAMBDA t : t # WS)

\* Sequences over S of length lo..hi
SeqsOf(S, lo, hi) == UNION {[1..n -> S] : n \in lo..hi}

IsInjective(s) == \A i, j \in 1..Len(s) : s[i] = s[j] => i = j

\* A JSON object: ordered, keys unique.
Catalogs ==
    { c \in SeqsOf([key : Keys, value : Texts], 0, MaxKeys) :
        IsInjective([i \in 1..Len(c) |-> c[i].key]) }

\* "a,b,c".split(",") : never empty, duplicates are kept
LangLists == SeqsOf(Langs, 1, MaxLangs)

KeysOf(c) == [i \in 1..Len(c) |-> c[i].key]

VARIABLES
    repo_name,          \* owner part of GITHUB_REPO
    TARGET_LANGS,       \* TRANSLATE_LANGS split on ","
    catalog,            \* locales/en.json on main
    branchExists,       \* refs/heads/translations-auto exists
    files,              \* locales/<lang>.json on the working branch
    openPRs,            \* open pull requests translations-auto -> main
    pc,
    source_data,
    li,                 \* position in TARGET_LANGS
    ki,                 \* position in source_data.items()
    translations,
    lang_tokens,
    translation_log,
    total_tokens_used,
    csvFile,            \* translation_report.csv on disk
    apiCalls,           \* total_tokens of every completion call that returned
    writes,             \* file writes accepted by the host, in order
    faults,             \* external calls that raised for a transient reason
    crashAt,            \* step whose exception escaped push_translations
    createPullCalls,    \* calls of repo.create_pull
    mail,               \* "none" | "sent" | "failed"
    start               \* the repository as the run found it

vars == <<repo_name, TARGET_LANGS, catalog, branchExists, files, openPRs, pc,
          source_data, li, ki, translations, lang_tokens, translation_log,
          total_tokens_used, csvFile, apiCalls, writes, faults, crashAt,
          createPullCalls, mail, start>>

config == <<repo_name, TARGET_LANGS, catalog, start>>
host == <<branchExists, files, openPRs>>
translator == <<translations, lang_tokens, translation_log, total_tokens_used,
                apiCalls, ki>>

NoFile == [exists |-> FALSE, content |-> <<>>, sha |-> 0]
OldFile == [exists |-> TRUE, content |-> StaleContent, sha |-> 1]

Init ==
    /\ repo_name \in Owners
    /\ TARGET_LANGS \in LangLists
    /\ catalog \in Catalogs
    /\ Len(catalog) * Len(TARGET_LANGS) <= MaxCalls
    /\ branchExists \in BOOLEAN
    /\ files \in [Langs -> {NoFile, OldFile}]
    /\ openPRs \in {0, 1}
    /\ ~branchExists => (openPRs = 0 /\ \A l \in Langs : files[l] = NoFile)
    /\ pc = "connect"
    /\ source_data = <<>>
    /\ li = 1
    /\ ki = 1
    /\ translations = <<>>
    /\ lang_tokens = 0
    /\ translation_log = <<>>
    /\ total_tokens_used = 0
    /\ csvFile = <<>>
    /\ apiCalls = <<>>
    /\ writes = <<>>
    /\ faults = 0
    /\ crashAt = "none"
    /\ createPullCalls = 0
    /\ mail = "none"
    /\ start = [branch |-> branchExists,
                files |-> {l \in Langs : files[l].exists},
                prs |-> openPRs]

\* An external call raises for a reason the model does not track.
Fault ==
    /\ faults < MaxFaults
    /\ faults' = faults + 1

\* An exception nobody catches: the process ends.
Crash(step) ==
    /\ pc' = "crashed"
    /\ crashAt' = step

\* ------------------------------------------------------- pure operations
\* total_tokens_used += response.usage.total_tokens
AddUsageOverwrite(total, tokens) == tokens

AddUsage(total, tokens) == total + tokens

\* translations = {key: value} in place of translations[key] = value
DictSetLast(d, k, v) == <<[key |-> k, text |-> v]>>

\* dict[key] = value on an insertion-ordered dict
DictSet(d, k, v) ==
    IF \E i \in 1..Len(d) : d[i].key = k
    THEN [i \in 1..Len(d) |-> IF d[i].key = k THEN [key |-> k, text |-> v] ELSE d[i]]
    ELSE Append(d, [key |-> k, text |-> v])

\* entries.insert(0, entry) in place of entries.append(entry)
LogAppendFront(log, lang, entry) ==
    IF \E i \in 1..Len(log) : log[i].lang = lang
    THEN [i \in 1..Len(log) |->
            IF log[i].lang = lang
            THEN [lang |-> lang, entries |-> <<entry>> \o log[i].entries]
            ELSE log[i]]
    ELSE Append(log, [lang |-> lang, entries |-> <<entry>>])

\* translation_log.setdefault(lang, []).append(entry)
LogAppend(log, lang, entry) ==
    IF \E i \in 1..Len(log) : log[i].lang = lang
    THEN [i \in 1..Len(log) |->
            IF log[i].lang = lang
            THEN [lang |-> lang, entries |-> Append(log[i].entries, entry)]
            ELSE log[i]]
    ELSE Append(log, [lang |-> lang, entries |-> <<entry>>])

\* translation_log.get(lang, [])
EntriesOf(log, lang) ==
    IF \E i \in 1..Len(log) : log[i].lang = lang
    THEN (CHOOSE e \in Range(log) : e.lang = lang).entries
    ELSE <<>>

\* The data rows write_csv_log emits for one language
LangRows(lang, entries) ==
    [i \in 1..Len(entries) |->
        <<lang, entries[i][1], entries[i][2], entries[i][3]>>]

RECURSIVE LogRows(_)
LogRows(log) ==
    IF log = <<>> THEN <<>>
    ELSE LangRows(log[1].lang, log[1].entries) \o LogRows(Tail(log))

\* the header written inside the loop over the languages
write_csv_log_header_in_loop(log) ==
    IF log = <<>> THEN <<>> ELSE <<CSV_HEADER>> \o LogRows(log)

\* write_csv_log: the file's rows
write_csv_log(log) == <<CSV_HEADER>> \o LogRows(log)

\* the query run with state="closed"
OpenPullCountClosed(owner, n) == 0

\* What get_pulls(state="open", head="ClintUK:translations-auto", base="main")
\* counts in a repository of the given owner holding n open pull requests
\* from its own branch translations-auto into main.
OpenPullCount(owner, n) == IF owner = QUERY_HEAD_OWNER THEN n ELSE 0

\* ---------------------------------------------------------------- actions
\* gh.get_repo(repo_name); repo.get_branch("main")
Connect ==
    /\ pc = "connect"
    /\ \/ /\ pc' = "ensure_branch"
          /\ UNCHANGED <<faults, crashAt>>
       \/ Fault /\ Crash("connect")
    /\ UNCHANGED <<config, host, translator, source_data, li, csvFile, writes,
                   createPullCalls, mail>>

\* try: repo.create_git_ref(...)  except: print(...)
EnsureBranch ==
    /\ pc = "ensure_branch"
    /\ \/ /\ ~branchExists
          /\ branchExists' = TRUE
          \* the new ref points at main's tip: it carries main's tree
          /\ files' \in [Langs -> {NoFile, OldFile}]
          /\ UNCHANGED faults
       \/ /\ branchExists
          /\ UNCHANGED <<branchExists, files, faults>>
       \/ /\ ~branchExists
          /\ Fault
          /\ UNCHANGED <<branchExists, files>>
    /\ pc' = "load_catalog"
    /\ UNCHANGED <<config, openPRs, translator, source_data, li, csvFile, writes,
                   crashAt, createPullCalls, mail>>

\* contents = repo.get_contents(LOCALE_PATH, ref="main"); json.loads(...)
LoadCatalog ==
    /\ pc = "load_catalog"
    /\ \/ /\ source_data' = catalog
          /\ pc' = "lang_loop"
          /\ UNCHANGED <<faults, crashAt>>
       \/ /\ Fault /\ Crash("load_catalog")
          /\ UNCHANGED source_data
    /\ UNCHANGED <<config, host, translator, li, csvFile, writes,
                   createPullCalls, mail>>

\* for lang in TARGET_LANGS: ... translate_locale(source_data, lang) begins
NextLang ==
    /\ pc = "lang_loop"
    /\ IF li <= Len(TARGET_LANGS)
       THEN /\ translations' = <<>>
            /\ lang_tokens' = 0
            /\ ki' = 1
            /\ pc' = "translate"
       ELSE /\ pc' = "ensure_pr"
            /\ UNCHANGED <<translations, lang_tokens, ki>>
    /\ UNCHANGED <<config, host, translation_log, total_tokens_used, apiCalls,
                   source_data, li, csvFile, writes, faults, crashAt,
                   createPullCalls, mail>>

\* translate_text returned: lines 55-56 and 63-65
TranslateReturns ==
    LET lang == TARGET_LANGS[li]
        key == source_data[ki].key
        value == source_data[ki].value
    IN \E r \in Responses :
        LET translated == strip(r.content)
            tokens == lang_tokens + Len(split(value)) + Len(split(translated))
        IN /\ total_tokens_used' = AddUsage(total_tokens_used, r.total_tokens)
           /\ apiCalls' = Append(apiCalls, r.total_tokens)
           /\ translations' = DictSet(translations, key, translated)
           /\ lang_tokens' = tokens
           /\ translation_log' =
                LogAppend(translation_log, lang, <<key, value, translated, tokens>>)
           /\ ki' = ki + 1
           /\ UNCHANGED <<pc, faults, crashAt>>

\* the call wrapped in try/except with continue
TranslateKeySwallow ==
    /\ pc = "translate"
    /\ ki <= Len(source_data)
    /\ \/ TranslateReturns
       \/ /\ Fault
          /\ crashAt' = "translate"
          /\ ki' = ki + 1
          /\ UNCHANGED <<pc, translations, lang_tokens, translation_log,
                         total_tokens_used, apiCalls>>
    /\ UNCHANGED <<config, host, source_data, li, csvFile, writes,
                   createPullCalls, mail>>

\* One iteration of translate_locale's loop, translate_text included.
TranslateKey ==
    /\ pc = "translate"
    /\ ki <= Len(source_data)
    /\ \/ TranslateReturns
       \/ /\ Fault /\ Crash("translate")
          /\ UNCHANGED translator
    /\ UNCHANGED <<config, host, source_data, li, csvFile, writes,
                   createPullCalls, mail>>

\* The host accepts a write of json_blob to locales/<lang>.json
Accept(lang, op) ==
    /\ files' = [files EXCEPT ![lang] =
                    [exists |-> TRUE, content |-> translations,
                     sha |-> files[lang].sha + 1]]
    /\ writes' = Append(writes,
                    [lang |-> lang, op |-> op, content |-> translations])
    /\ li' = li + 1
    /\ pc' = "lang_loop"

\* try: repo.create_file(...): created, or the exception the except takes
\* (the host refuses to create a path that exists or on a branch that does
\* not; any other error is caught the same way)
TryCreate ==
    LET lang == TARGET_LANGS[li]
    IN \/ /\ branchExists /\ ~files[lang].exists
          /\ Accept(lang, "create")
          /\ UNCHANGED faults
       \/ /\ ~branchExists \/ files[lang].exists
          /\ pc' = "update_file"
          /\ UNCHANGED <<files, writes, li, faults>>
       \/ /\ Fault
          /\ pc' = "update_file"
          /\ UNCHANGED <<files, writes, li>>

\* create_file called from inside the loop over the keys
CreateFileEager ==
    /\ pc = "translate"
    /\ TryCreate
    /\ UNCHANGED <<config, branchExists, openPRs, translator, source_data,
                   csvFile, crashAt, createPullCalls, mail>>

\* translate_locale returned; json.dumps(translated, ...); try: repo.create_file(...)
CreateFile ==
    /\ pc = "translate"
    /\ ki > Len(source_data)
    /\ TryCreate
    /\ UNCHANGED <<config, branchExists, openPRs, translator, source_data,
                   csvFile, crashAt, createPullCalls, mail>>

\* the fallback wrapped in its own try/except, the loop going on
UpdateFileSkip ==
    /\ pc = "update_file"
    /\ LET lang == TARGET_LANGS[li]
       IN \/ /\ branchExists /\ files[lang].exists
             /\ Accept(lang, "update")
             /\ UNCHANGED <<faults, crashAt>>
          \/ /\ ~branchExists \/ ~files[lang].exists
             /\ crashAt' = "update_file"
             /\ li' = li + 1
             /\ pc' = "lang_loop"
             /\ UNCHANGED <<files, writes, faults>>
          \/ /\ Fault
             /\ crashAt' = "update_file"
             /\ li' = li + 1
             /\ pc' = "lang_loop"
             /\ UNCHANGED <<files, writes>>
    /\ UNCHANGED <<config, branchExists, openPRs, translator, source_data,
                   csvFile, createPullCalls, mail>>

\* except: repo.update_file(..., sha=repo.get_contents(path, ref=BRANCH_NAME).sha)
UpdateFile ==
    /\ pc = "update_file"
    /\ LET lang == TARGET_LANGS[li]
       IN \/ /\ branchExists /\ files[lang].exists
             /\ Accept(lang, "update")
             /\ UNCHANGED <<faults, crashAt>>
          \/ /\ ~branchExists \/ ~files[lang].exists
             /\ Crash("update_file")
             /\ UNCHANGED <<files, writes, li, faults>>
          \/ /\ Fault /\ Crash("update_file")
             /\ UNCHANGED <<files, writes, li>>
    /\ UNCHANGED <<config, branchExists, openPRs, translator, source_data,
                   csvFile, createPullCalls, mail>>

\* repo.create_pull(...): opened; or rejected by the host, which refuses a
\* second open pull request for the same head and base and a head branch that
\* does not exist; or a transient error
CreatePull ==
    /\ createPullCalls' = createPullCalls + 1
    /\ \/ /\ branchExists /\ openPRs = 0
          /\ openPRs' = 1
          /\ pc' = "email"
          /\ UNCHANGED <<faults, crashAt>>
       \/ /\ ~branchExists \/ openPRs # 0
          /\ Crash("create_pull")
          /\ UNCHANGED <<openPRs, faults>>
       \/ /\ Fault /\ Crash("create_pull")
          /\ UNCHANGED openPRs

\* create_pull called without looking at totalCount
EnsurePRUnguarded ==
    /\ pc = "ensure_pr"
    /\ \/ CreatePull
       \/ /\ Fault /\ Crash("get_pulls")
          /\ UNCHANGED <<openPRs, createPullCalls>>
    /\ UNCHANGED <<config, branchExists, files, translator, source_data, li,
                   csvFile, writes, mail>>

\* existing_prs = repo.get_pulls(...); if totalCount == 0: repo.create_pull(...)
EnsurePR ==
    /\ pc = "ensure_pr"
    /\ \/ /\ OpenPullCount(repo_name, openPRs) = 0
          /\ CreatePull
       \/ /\ OpenPullCount(repo_name, openPRs) # 0
          /\ pc' = "email"
          /\ UNCHANGED <<openPRs, createPullCalls, faults, crashAt>>
       \/ /\ Fault /\ Crash("get_pulls")
          /\ UNCHANGED <<openPRs, createPullCalls>>
    /\ UNCHANGED <<config, branchExists, files, translator, source_data, li,
                   csvFile, writes, mail>>

\* send_translation_email up to the attachment: write_csv_log() runs here
BuildEmail ==
    /\ pc = "email"
    /\ \/ /\ csvFile' = write_csv_log(translation_log)
          /\ pc' = "smtp"
          /\ UNCHANGED <<faults, crashAt>>
       \/ /\ Fault /\ Crash("write_csv")
          /\ UNCHANGED csvFile
    /\ UNCHANGED <<config, host, translator, source_data, li, writes,
                   createPullCalls, mail>>

\* the SMTP session outside any try
SendMailUncaught ==
    /\ pc = "smtp"
    /\ \/ /\ mail' = "sent"
          /\ pc' = "done"
          /\ UNCHANGED <<faults, crashAt>>
       \/ /\ Fault
          /\ mail' = "failed"
          /\ Crash("smtp")
    /\ UNCHANGED <<config, host, translator, source_data, li, csvFile, writes,
                   createPullCalls>>

\* try: smtplib.SMTP(...) starttls, login, sendmail   except: print(...)
SendMail ==
    /\ pc = "smtp"
    /\ \/ /\ mail' = "sent"
          /\ UNCHANGED faults
       \/ /\ Fault
          /\ mail' = "failed"
    /\ pc' = "done"
    /\ UNCHANGED <<config, host, translator, source_data, li, csvFile, writes,
                   crashAt, createPullCalls>>

Next ==
    \/ Connect
    \/ EnsureBranch
    \/ LoadCatalog
    \/ NextLang
    \/ TranslateKey
    \/ CreateFile
    \/ UpdateFile
    \/ EnsurePR
    \/ BuildEmail
    \/ SendMail

Spec == Init /\ [][Next]_vars

\* ------------------------------------------------------------ properties
N == Len(catalog)
L == Len(TARGET_LANGS)
WrittenLangs == {writes[i].lang : i \in 1..Len(writes)}
Count(seq, x) == Cardinality({i \in 1..Len(seq) : seq[i] = x})
Distinct == IsInjective(TARGET_LANGS)

RECURSIVE Repeat(_, _)
Repeat(seq, n) == IF n = 0 THEN <<>> ELSE seq \o Repeat(seq, n - 1)

C2_UsageCounter ==
    /\ [](/\ total_tokens_used = SumSeq(apiCalls)
          /\ pc = "done" => Len(apiCalls) = N * L)
    /\ [][/\ total_tokens_used' >= total_tokens_used
          /\ total_tokens_used' # total_tokens_used =>
                /\ pc = "translate" /\ ki <= Len(source_data)
                /\ Len(apiCalls') = Len(apiCalls) + 1]_vars

C2_Witness ==
    /\ pc = "done"
    /\ Len(apiCalls) = 4
    /\ total_tokens_used = 6

\* The (key, original) pairs of a language's Translation Log entries
LoggedPairs(lang) ==
    LET e == EntriesOf(translation_log, lang)
    IN [i \in 1..Len(e) |-> <<e[i][1], e[i][2]>>]

CatalogPairs == [i \in 1..N |-> <<catalog[i].key, catalog[i].value>>]

\* Every entry of the log is still there, in place, after the step
AppendOnly ==
    /\ Len(translation_log') >= Len(translation_log)
    /\ \A i \in 1..Len(translation_log) :
          /\ translation_log'[i].lang = translation_log[i].lang
          /\ Len(translation_log'[i].entries) >= Len(translation_log[i].entries)
          /\ SubSeq(translation_log'[i].entries, 1, Len(translation_log[i].entries))
                = translation_log[i].entries

RowsBefore(log, i) == SumSeq([j \in 1..(i - 1) |-> Len(log[j].entries)])

\* C8: write_csv_log writes the header first, also for an empty log, then one
\* row (language, key, original, translated) per entry, languages in insertion
\* order and entries in order within a language; the file of a run that
\* completes has N x L data rows.
C8_CsvRows ==
    LET log == translation_log
        csv == write_csv_log(log)
    IN /\ Len(csv) >= 1
       /\ csv[1] = CSV_HEADER
       /\ Len(csv) = 1 + RowsBefore(log, Len(log) + 1)
       /\ \A i \in 1..Len(log) : \A e \in 1..Len(log[i].entries) :
             csv[1 + RowsBefore(log, i) + e] =
                <<log[i].lang, log[i].entries[e][1], log[i].entries[e][2],
                  log[i].entries[e][3]>>
       /\ pc \in {"smtp", "done"} =>
             /\ csvFile = csv
             /\ Len(csvFile) = 1 + N * L

C8_Witness ==
    /\ pc = "done"
    /\ Len(translation_log) = 2
    /\ Len(csvFile) = 5

\* C10: every content the host ever accepted for locales/<lang>.json has
\* exactly the catalog's keys, in catalog order; a write for the language at
\* list position i happens only after all N keys were translated for it, so a
\* language whose translation aborted has log entries but no write.
C10_NoPartialFile ==
    /\ \A i \in 1..Len(writes) : KeysOf(writes[i].content) = KeysOf(catalog)
    /\ \A l \in Langs : files[l].exists =>
          \/ files[l] = OldFile
          \/ KeysOf(files[l].content) = KeysOf(catalog)
    /\ Len(writes) = li - 1
    /\ \A i \in 1..Len(writes) : writes[i].lang = TARGET_LANGS[i]
    /\ Len(apiCalls) >= Len(writes) * N
    /\ pc = "translate" => Len(apiCalls) = Len(writes) * N + (ki - 1)

C10_Witness ==
    /\ pc = "crashed"
    /\ crashAt = "translate"
    /\ N = MaxKeys
    /\ ki = 2
    /\ li = 1
    /\ writes = <<>>
    /\ Len(EntriesOf(translation_log, TARGET_LANGS[1])) = 1

\* The run found the working branch, an open pull request and the file of
\* every configured language, as a completed run leaves them.
SecondRun ==
    /\ start.branch
    /\ start.prs = 1
    /\ Range(TARGET_LANGS) \subseteq start.files

Updates(l) == Cardinality({i \in 1..Len(writes) : writes[i].lang = l})

\* C3 as stated: a second run in which no external call fails for a transient
\* reason completes normally, only updates files, and neither opens nor tries
\* to open a second pull request.
C3_SecondRunCompletes ==
    (SecondRun /\ faults = 0) =>
        /\ pc # "crashed"
        /\ \A i \in 1..Len(writes) : writes[i].op = "update"
        /\ openPRs = 1
        /\ createPullCalls = 0

\* C3 amended: a second run in which no external call fails for a transient
\* reason creates no file and updates each configured language's file in
\* place on top of its current revision, and never has two open pull
\* requests.  It completes normally when the repository's owner is ClintUK,
\* the account the open-PR query filters on.  For any other owner the query
\* finds nothing, create_pull is called once and rejected by the host, and the
\* run ends there with that error, after all files were updated and before
\* the mailer.
C3_SecondRunIdempotent ==
    (SecondRun /\ faults = 0) =>
        /\ \A i \in 1..Len(writes) : writes[i].op = "update"
        /\ {l \in Langs : files[l].exists} = start.files
        /\ \A l \in start.files : files[l].sha = OldFile.sha + Updates(l)
        /\ openPRs = 1
        /\ pc = "done" => Len(writes) = L
        /\ repo_name = QUERY_HEAD_OWNER =>
              /\ pc # "crashed"
              /\ createPullCalls = 0
        /\ repo_name # QUERY_HEAD_OWNER =>
              /\ pc \notin {"email", "smtp", "done"}
              /\ createPullCalls <= 1
              /\ pc = "crashed" =>
                    /\ crashAt = "create_pull"
                    /\ createPullCalls = 1
                    /\ Len(writes) = L
                    /\ mail = "none"

C3_Witness ==
    /\ SecondRun
    /\ faults = 0
    /\ pc = "done"
    /\ L >= 2
    /\ Distinct
    /\ \A i \in 1..L : writes[i].op = "update"
    /\ createPullCalls = 0

\* C4: a failure of the mail transport is caught: the run still reaches normal
\* completion with no exception escaping, and the report file was written
\* before the send attempt started.
C4_MailFailureSwallowed ==
    /\ mail = "failed" => (pc = "done" /\ crashAt = "none")
    /\ (pc = "smtp" \/ mail # "none") =>
          /\ csvFile # <<>>
          /\ csvFile[1] = CSV_HEADER
          /\ Len(csvFile) = 1 + N * L

C4_Witness ==
    /\ mail = "failed"
    /\ pc = "done"
    /\ Len(csvFile) >= 2

\* C5 as stated: an error while publishing one language's file never ends the
\* run (the later languages are handled and the mailer is invoked).
C5_PublishErrorNeverEndsRun == crashAt # "update_file"

\* C5 amended: the Report Mailer is invoked exactly when the run gets through
\* step 5 without an uncaught error, which requires every language to have
\* been published.  In step 4 only an error of create_file is caught, and it
\* leads to the update fallback; an error in the fallback (get_contents or
\* update_file) is not caught: it ends the run, the later languages are
\* neither translated nor published, no pull request is opened and the mailer
\* is not invoked.
C5_MailerOnlyAfterAllPublished ==
    /\ [](/\ pc \in {"email", "smtp", "done"} => (li = L + 1 /\ Len(writes) = L)
          /\ pc = "update_file" => crashAt = "none"
          /\ crashAt = "update_file" =>
                /\ pc = "crashed"
                /\ li <= L
                /\ Len(writes) = li - 1
                /\ Len(apiCalls) = li * N
                /\ createPullCalls = 0
                /\ csvFile = <<>>
                /\ mail = "none")
    /\ [][/\ (pc = "translate" /\ pc' # pc) => pc' \in {"lang_loop", "update_file", "crashed"}
          /\ (pc = "translate" /\ pc' = "crashed") => ki <= Len(source_data)
          /\ (pc = "ensure_pr" /\ pc' # "crashed") => pc' = "email"]_vars

C5_Witness ==
    /\ pc = "crashed"
    /\ crashAt = "update_file"
    /\ li = 1
    /\ L >= 2
    /\ N >= 1

\* C7: when a completion call raises, the run ends at once: the call is not
\* repeated and no later call is made, no file is written for the language at
\* that list position or a later one, create_pull is never called, no report
\* is written and no mail is attempted; nothing runs after the error.
C7_TranslationErrorEndsRun ==
    /\ [](crashAt = "translate" =>
            /\ pc = "crashed"
            /\ li <= L
            /\ ki <= N
            /\ Len(apiCalls) = (li - 1) * N + (ki - 1)
            /\ Len(writes) = li - 1
            /\ createPullCalls = 0
            /\ csvFile = <<>>
            /\ mail = "none")
    /\ [][pc # "crashed"]_vars

C7_Witness ==
    /\ crashAt = "translate"
    /\ pc = "crashed"
    /\ li = 2
    /\ ki = 2
    /\ Len(writes) = 1

\* C9 as stated: when an open pull request from the working branch into main
\* exists at the Ensure-pull-request step, create_pull is not called and the
\* step does not end the run.
C9_ExistingPRMeansNoCreate ==
    start.prs >= 1 => (createPullCalls = 0 /\ crashAt # "create_pull")

\* C9 amended: when an open pull request from the working branch into main
\* whose head owner is ClintUK (the account the query filters on) exists at the
\* Ensure-pull-request step, create_pull is not called, and unless the query
\* itself raises the mailer is invoked next; create_pull is called only when
\* the query counts zero, and at most once per run.
C9_QueriedPRMeansNoCreate ==
    /\ [](/\ createPullCalls <= 1
          /\ createPullCalls = 1 => OpenPullCount(repo_name, start.prs) = 0
          /\ OpenPullCount(repo_name, start.prs) >= 1 =>
                /\ createPullCalls = 0
                /\ openPRs = start.prs
                /\ crashAt # "create_pull")
    /\ [][(/\ pc = "ensure_pr"
           /\ OpenPullCount(repo_name, openPRs) >= 1
           /\ faults' = faults) => pc' = "email"]_vars

C9_Witness ==
    /\ pc = "done"
    /\ repo_name = QUERY_HEAD_OWNER
    /\ start.prs = 1
    /\ createPullCalls = 0
    /\ mail = "sent"

====
